---------------------------- MODULE Spec2Model ----------------------------
(***************************************************************************)
(* A model of cmd-args 1.1.0 (cmd-args.hpp): the argument registry         *)
(* (ArgParser::add), the parse loop (ArgParser::parseCmd) with the three   *)
(* parseArg variants, the type conversion layer and the help renderer.     *)
(*                                                                         *)
(* A std::string is a sequence of one-character strings, so that the       *)
(* code's tests on characters (arg[0] == '-', stream extraction, padding)  *)
(* are computed and not assumed.                                           *)
(*                                                                         *)
(* A parser is used as the demonstration programs use it: arguments are    *)
(* registered, parseCmd is called once, and createHelpMessage can be       *)
(* called before and after. One step of the model is a call of add or of   *)
(* createHelpMessage, the entry of parseCmd, or one iteration of its loop. *)
(*                                                                         *)
(* The free functions stringToType and typeToString are also called on     *)
(* their own, by the specification ConvSpec, on tokens and values a        *)
(* command line need not hold.                                             *)
(***************************************************************************)
EXTENDS Integers, Sequences, FiniteSets, TLC

VARIABLES
    args,          \* the Argument objects made by add, in registration order
    arguments,     \* ArgParser::arguments: name -> index into args
    visibleArgs,   \* ArgParser::visibleArgs: indices into args
    hiddenArgs,    \* ArgParser::hiddenArgs: indices into args
    pc,            \* "setup", "parsing", "done" (parseCmd returned), "failed" (parseCmd threw)
    argv,          \* the argument vector given to parseCmd (argv[0] first)
    i,             \* the loop index of parseCmd
    err,           \* the exception thrown by the last call of add or parseCmd, or NoError
    dispatched,    \* history: the <<i, argument index>> pairs parseCmd called parseArg for
    decls,         \* history: the constructor arguments each element of args was made from
    lastCall,      \* history: the last call made on the parser, with its input
    helpMessage,   \* what the call just made returned, when it was createHelpMessage
    conv           \* the call of a conversion function made on its own: input and result

vars == <<args, arguments, visibleArgs, hiddenArgs, pc, argv, i, err, dispatched, decls,
          lastCall, helpMessage, conv>>

---------------------------------------------------------------------------
(* Bounds of the model *)

\* the most arguments registered with add
MaxArgs == 2

\* the largest argc given to parseCmd (argv[0] included)
MaxArgc == 3

\* the longest token given to stringToType on its own
MaxLen == 3

\* the largest magnitude of an int given to typeToString on its own
MaxMagnitude == 12

---------------------------------------------------------------------------
(* Strings *)

EmptyStr == <<>>

\* the characters '0'..'9' and their values, as operator>> reads them
DigitVal == [c \in {"0", "1", "2", "3", "4", "5", "6", "7", "8", "9"} |->
               CASE c = "0" -> 0 [] c = "1" -> 1 [] c = "2" -> 2 [] c = "3" -> 3
                 [] c = "4" -> 4 [] c = "5" -> 5 [] c = "6" -> 6 [] c = "7" -> 7
                 [] c = "8" -> 8 [] c = "9" -> 9]

DigitChar == <<"0", "1", "2", "3", "4", "5", "6", "7", "8", "9">>

IsDigit(c) == c \in DOMAIN DigitVal

IsSpace(c) == c \in {" ", "\t", "\n"}

\* std::tolower on the letters the model's tokens use
ToLower(c) ==
    CASE c = "T" -> "t" [] c = "R" -> "r" [] c = "U" -> "u" [] c = "E" -> "e"
      [] c = "F" -> "f" [] c = "A" -> "a" [] c = "L" -> "l" [] c = "S" -> "s"
      [] c = "X" -> "x"
      [] OTHER -> c

lowerString(str) == [k \in 1..Len(str) |-> ToLower(str[k])]

---------------------------------------------------------------------------
(* Type conversion layer *)

RECURSIVE SkipSpace(_)
SkipSpace(s) == IF s # <<>> /\ IsSpace(Head(s)) THEN SkipSpace(Tail(s)) ELSE s

\* the digits operator>> accumulates from the front of s: <<value, number of digits>>
RECURSIVE ReadDigits(_, _, _)
ReadDigits(s, acc, n) ==
    IF s # <<>> /\ IsDigit(Head(s))
    THEN ReadDigits(Tail(s), acc * 10 + DigitVal[Head(s)], n + 1)
    ELSE <<acc, n>>

\* std::istringstream >> int: leading whitespace is skipped, an optional sign
\* and the longest run of digits are read; what follows the digits stays in
\* the stream and does not make the extraction fail. (A run of digits beyond
\* the range of int fails too; the tokens of this model have at most two digits.)
ExtractInt(str) ==
    LET s    == SkipSpace(str)
        neg  == s # <<>> /\ Head(s) = "-"
        sgn  == s # <<>> /\ Head(s) \in {"-", "+"}
        body == IF sgn THEN Tail(s) ELSE s
        r    == ReadDigits(body, 0, 0)
        v    == IF neg THEN 0 - r[1] ELSE r[1]
    IN  IF r[2] = 0
        THEN [ok |-> FALSE, rest |-> body]
        ELSE [ok |-> TRUE, val |-> v, rest |-> SubSeq(body, r[2] + 1, Len(body))]

\* std::to_string of a float writes it with "%f": six digits after the point
FracDigits == 6

RECURSIVE Pow10(_)
Pow10(k) == IF k = 0 THEN 1 ELSE 10 * Pow10(k - 1)

\* A float is modelled by a sign, a whole part and a fractional part counted
\* in units of 10^-(FracDigits + 1), one decimal more than std::to_string
\* writes. The values of the model have at most seven significant digits,
\* which a float tells apart; negative zero equals zero and is not kept.
Float(neg, whole, frac) ==
    [neg |-> neg /\ (whole # 0 \/ frac # 0), whole |-> whole, frac |-> frac]

\* std::istringstream >> float: leading whitespace is skipped, an optional
\* sign, digits, and a point with digits are read, one digit at least; what
\* follows stays in the stream and does not make the extraction fail. (The
\* tokens of this model have no exponent and at most FracDigits + 1 decimals.)
ExtractFloat(str) ==
    LET s     == SkipSpace(str)
        neg   == s # <<>> /\ Head(s) = "-"
        sgn   == s # <<>> /\ Head(s) \in {"-", "+"}
        body  == IF sgn THEN Tail(s) ELSE s
        ip    == ReadDigits(body, 0, 0)
        after == SubSeq(body, ip[2] + 1, Len(body))
        fp    == IF after # <<>> /\ Head(after) = "."
                 THEN ReadDigits(Tail(after), 0, 0) ELSE <<0, 0>>
        frac  == IF fp[2] <= FracDigits + 1
                 THEN fp[1] * Pow10(FracDigits + 1 - fp[2])
                 ELSE fp[1] \div Pow10(fp[2] - FracDigits - 1)
    IN  IF ip[2] + fp[2] = 0
        THEN [ok |-> FALSE]
        ELSE [ok |-> TRUE, val |-> Float(neg, ip[1], frac)]

\* stringToType<T>: [ok |-> TRUE, val |-> the value] or [ok |-> FALSE] (std::invalid_argument)
stringToType(T, str) ==
    CASE T = "int" ->
           LET e == ExtractInt(str)
           IN  IF e.ok THEN [ok |-> TRUE, val |-> e.val] ELSE [ok |-> FALSE]
      [] T = "float" -> ExtractFloat(str)
      [] T = "bool" ->
           LET lstr == lowerString(str)
           IN  IF lstr \in {<<"t", "r", "u", "e">>, <<"1">>, <<"f", "a", "l", "s", "e">>, <<"0">>}
               THEN [ok |-> TRUE, val |-> (lstr \in {<<"t", "r", "u", "e">>, <<"1">>})]
               ELSE [ok |-> FALSE]
      [] T = "string" -> [ok |-> TRUE, val |-> str]

\* the decimal digits of a natural number, as std::to_string writes them
RECURSIVE NatToString(_)
NatToString(n) ==
    IF n < 10 THEN <<DigitChar[n + 1]>>
    ELSE NatToString(n \div 10) \o <<DigitChar[(n % 10) + 1]>>

\* the digits of n, with zeros before them up to the width w
ZeroPadded(n, w) ==
    LET d == NatToString(n)
    IN  [k \in 1..(w - Len(d)) |-> "0"] \o d

\* std::to_string of a float: the sign, the whole part, a point and
\* FracDigits decimals, the last one rounded. (A value whose next decimal is
\* exactly 5 is rounded by its binary expansion; it is rounded up here.)
FloatToString(val) ==
    LET q     == (val.frac + 5) \div 10
        carry == q = Pow10(FracDigits)
    IN  (IF val.neg THEN <<"-">> ELSE <<>>)
          \o NatToString(IF carry THEN val.whole + 1 ELSE val.whole) \o <<".">>
          \o ZeroPadded(IF carry THEN 0 ELSE q, FracDigits)

\* typeToString<T> writing a negative int without its sign
typeToString_NoSign(T, val) ==
    CASE T = "int" -> IF val < 0 THEN NatToString(0 - val) ELSE NatToString(val)
      [] T = "float" -> FloatToString(val)
      [] T = "bool" -> IF val THEN <<"t", "r", "u", "e">> ELSE <<"f", "a", "l", "s", "e">>
      [] T = "string" -> val

\* typeToString<T>
typeToString(T, val) ==
    CASE T = "int" -> IF val < 0 THEN <<"-">> \o NatToString(0 - val) ELSE NatToString(val)
      [] T = "float" -> FloatToString(val)
      [] T = "bool" -> IF val THEN <<"t", "r", "u", "e">> ELSE <<"f", "a", "l", "s", "e">>
      [] T = "string" -> val

---------------------------------------------------------------------------
(* Arguments *)

Visibility == {"VISIBLE", "HIDDEN", "INVISIBLE"}

\* The member data is read by value() and by the help listing. When no
\* constructor initialises it, it holds an indeterminate value if T is a
\* scalar, one of these, and the empty string if T is std::string.
Indeterminate(T) ==
    CASE T = "int" -> {0, 5}
      [] T = "bool" -> BOOLEAN
      [] T = "string" -> {EmptyStr}

\* The member dv is read by defaultValue() only: the model records whether it
\* was initialised, and with what. A read of an uninitialised dv yields any value.
Holding(v) == [initialised |-> TRUE, val |-> v]

\* T dv; with no initialiser: a std::string is default-constructed, a scalar
\* is left uninitialised
DefaultInit(T) == IF T = "string" THEN Holding(EmptyStr) ELSE [initialised |-> FALSE]

\* Argument::Argument: the names gain their dashes, the flags start false
Argument(visibility, shortName, longName, description) ==
    [shortName   |-> IF shortName # EmptyStr THEN <<"-">> \o shortName ELSE EmptyStr,
     longName    |-> IF longName # EmptyStr THEN <<"-", "-">> \o longName ELSE EmptyStr,
     visibility  |-> visibility,
     description |-> description,
     isSet_      |-> FALSE,
     isDefined_  |-> FALSE]

\* a record a extended with the fields of record b (b wins)
Extend(a, b) ==
    [f \in DOMAIN a \cup DOMAIN b |-> IF f \in DOMAIN b THEN b[f] ELSE a[f]]

\* ValueArg<T>::ValueArg with the constructor that takes a default forgetting
\* isDefined_ = true
ValueArg_DefaultNotDefined(d, gData) ==
    LET base == Argument(d.visibility, d.shortName, d.longName, d.description)
    IN  IF d.hasDefault
        THEN Extend(base, [kind |-> "Value", T |-> d.T, data |-> d.defaultValue,
                           dv |-> Holding(d.defaultValue), hasDefault_ |-> TRUE])
        ELSE Extend(base, [kind |-> "Value", T |-> d.T, data |-> gData,
                           dv |-> DefaultInit(d.T), hasDefault_ |-> FALSE])

\* ValueArg<T>::ValueArg, without and with a default value; gData is what the
\* member data holds when the constructor does not initialise it
ValueArg(d, gData) ==
    LET base == Argument(d.visibility, d.shortName, d.longName, d.description)
    IN  IF d.hasDefault
        THEN Extend(base, [kind |-> "Value", T |-> d.T, data |-> d.defaultValue,
                           dv |-> Holding(d.defaultValue), isDefined_ |-> TRUE,
                           hasDefault_ |-> TRUE])
        ELSE Extend(base, [kind |-> "Value", T |-> d.T, data |-> gData,
                           dv |-> DefaultInit(d.T), hasDefault_ |-> FALSE])

\* ImplicitArg<T>::ImplicitArg, without and with a default value: the
\* parameter dv initialises data, the member dv is never assigned
ImplicitArg(d, gData) ==
    LET base == Argument(d.visibility, d.shortName, d.longName, d.description)
    IN  IF d.hasDefault
        THEN Extend(base, [kind |-> "Implicit", T |-> d.T, setValue |-> d.sv,
                           data |-> d.defaultValue, dv |-> DefaultInit(d.T),
                           hasDefault_ |-> TRUE, isDefined_ |-> TRUE])
        ELSE Extend(base, [kind |-> "Implicit", T |-> d.T, setValue |-> d.sv,
                           data |-> gData, dv |-> DefaultInit(d.T), hasDefault_ |-> FALSE])

\* FlagArg::FlagArg without isDefined_ = true
FlagArg_NotDefined(d) ==
    Extend(Argument(d.visibility, d.shortName, d.longName, d.description),
           [kind |-> "Flag", T |-> "bool", data |-> FALSE])

\* FlagArg::FlagArg
FlagArg(d) ==
    Extend(Argument(d.visibility, d.shortName, d.longName, d.description),
           [kind |-> "Flag", T |-> "bool", data |-> FALSE, isDefined_ |-> TRUE])

\* ArgType arg{args...}
Construct(d, gData) ==
    CASE d.kind = "Value" -> ValueArg(d, gData)
      [] d.kind = "Implicit" -> ImplicitArg(d, gData)
      [] d.kind = "Flag" -> FlagArg(d)

---------------------------------------------------------------------------
(* The inputs: declarations given to add, and tokens given to parseCmd *)

Decl(kind, T, visibility, shortName, longName, description, hasDefault, sv, defaultValue) ==
    [kind |-> kind, T |-> T, visibility |-> visibility, shortName |-> shortName,
     longName |-> longName, description |-> description, hasDefault |-> hasDefault,
     sv |-> sv, defaultValue |-> defaultValue]

\* the constructor calls add is given: every kind, value types int, string
\* and bool, one name or both, every visibility, with and without a default;
\* names are shared between declarations, so that two registrations can
\* collide on a key
ValueDecls ==
    { Decl("Value", "int", "VISIBLE", <<"a">>, <<"a">>, <<"V", "1">>, TRUE, 0, 3),
      Decl("Value", "string", "HIDDEN", EmptyStr, <<"b">>, <<"V", "2">>, FALSE, EmptyStr, EmptyStr),
      Decl("Value", "bool", "INVISIBLE", <<"a">>, EmptyStr, <<"V", "3">>, TRUE, FALSE, FALSE) }

ImplicitDecls ==
    { Decl("Implicit", "int", "VISIBLE", <<"b">>, EmptyStr, <<"I", "1">>, TRUE, 2, 4),
      Decl("Implicit", "string", "INVISIBLE", <<"a">>, <<"b">>, <<"I", "2">>, FALSE, <<"s">>, EmptyStr) }

FlagDecls ==
    { Decl("Flag", "bool", "HIDDEN", <<"b">>, <<"a">>, <<"F", "1">>, FALSE, FALSE, FALSE) }

\* constructor calls with both names empty, one of each kind
NamelessDecls ==
    { Decl("Value", "int", "VISIBLE", EmptyStr, EmptyStr, <<"N", "1">>, TRUE, 0, 3),
      Decl("Implicit", "string", "HIDDEN", EmptyStr, EmptyStr, <<"N", "2">>, FALSE, <<"s">>, EmptyStr),
      Decl("Flag", "bool", "VISIBLE", EmptyStr, EmptyStr, <<"N", "3">>, FALSE, FALSE, FALSE) }

Decls == ValueDecls \cup ImplicitDecls \cup FlagDecls \cup NamelessDecls

\* argv[0]
ProgName == <<"p">>

\* the tokens of a command line: the four names the declarations can register,
\* a token every T converts, a token only string converts, a negative number
\* and the empty string
Tokens ==
    { <<"-", "a">>, <<"-", "-", "a">>, <<"-", "b">>, <<"-", "-", "b">>,
      <<"1">>, <<"x">>, <<"-", "1">>, EmptyStr }

RECURSIVE SeqsUpTo(_, _)
SeqsUpTo(S, n) ==
    IF n = 0 THEN {<<>>}
    ELSE LET shorter == SeqsUpTo(S, n - 1)
         IN  shorter \cup {Append(s, t) : s \in {q \in shorter : Len(q) = n - 1}, t \in S}

\* a command line that names an argument twice, with a value the first time
\* and a name after it the second time
RepeatedArgvs == { <<ProgName, <<"-", "b">>, <<"1">>, <<"-", "b">>, <<"-", "a">>>> }

\* the argument vectors parseCmd is given: every one of up to MaxArgc
\* elements, and the longer ones above
Argvs == {<<ProgName>> \o s : s \in SeqsUpTo(Tokens, MaxArgc - 1)} \cup RepeatedArgvs

---------------------------------------------------------------------------
(* The queries of an argument *)

\* hasDefault() of a ValueArg or an ImplicitArg
hasDefault(a) == a.hasDefault_

\* defaultValue() of a ValueArg or an ImplicitArg returns the member dv: the
\* values the call can return, any value of T when dv was never initialised
defaultValue(a) == IF a.dv.initialised THEN {a.dv.val} ELSE Indeterminate(a.T)

---------------------------------------------------------------------------
(* Errors: every failure is a std::invalid_argument, told apart by its text *)

NoError == [kind |-> "none"]

\* "Command-line arguments must have at least one name\n"
InvalidDeclarationError == [kind |-> "InvalidDeclaration"]

\* "Command-line argument " + names + " requires a value but none was given\n"
MissingValueError(names) == [kind |-> "MissingValue", names |-> names]

\* "Command-line argument " + names + " recieved an invalid value of \"" + arg + "\"\n"
InvalidValueError(names, arg) == [kind |-> "InvalidValue", names |-> names, arg |-> arg]

\* no string returned by createHelpMessage is at hand
NoHelp == [called |-> FALSE]

\* no conversion function was called on its own
NoConversion == [pc |-> "none"]

---------------------------------------------------------------------------
(* ArgParser::add *)

\* arguments[key] = argPtr
MapPut(m, key, val) ==
    [k \in DOMAIN m \cup {key} |-> IF k = key THEN val ELSE m[k]]

\* the map after two insertions that keep the entry of a key already there,
\* as std::map::insert does
AddKeys_KeepFirst(m, arg, idx) ==
    LET m1 == IF arg.shortName # EmptyStr /\ arg.shortName \notin DOMAIN m
              THEN MapPut(m, arg.shortName, idx) ELSE m
    IN  IF arg.longName # EmptyStr /\ arg.longName \notin DOMAIN m1
        THEN MapPut(m1, arg.longName, idx) ELSE m1

\* the map after the two insertions of add
AddKeys(m, arg, idx) ==
    LET m1 == IF arg.shortName # EmptyStr THEN MapPut(m, arg.shortName, idx) ELSE m
    IN  IF arg.longName # EmptyStr THEN MapPut(m1, arg.longName, idx) ELSE m1

\* the test of the names against the bare dashes, as add made it when the
\* constructor put the dashes on empty names too
IsNameless_BareDashes(arg) == arg.shortName = <<"-">> /\ arg.longName = <<"-", "-">>

\* if (arg.shortName == "" && arg.longName == "")
IsNameless(arg) == arg.shortName = EmptyStr /\ arg.longName = EmptyStr

\* visibleArgs with the newest argument put first
VisibleAfterAdd_Front(list, arg, idx) ==
    IF arg.visibility = "VISIBLE" THEN <<idx>> \o list ELSE list

\* visibleArgs after add has handled arg
VisibleAfterAdd(list, arg, idx) ==
    IF arg.visibility = "VISIBLE" THEN Append(list, idx) ELSE list

\* hiddenArgs taking every argument that is not VISIBLE
HiddenAfterAdd_Else(list, arg, idx) ==
    IF arg.visibility = "VISIBLE" THEN list ELSE Append(list, idx)

\* hiddenArgs after add has handled arg
HiddenAfterAdd(list, arg, idx) ==
    IF arg.visibility = "VISIBLE" THEN list
    ELSE IF arg.visibility = "HIDDEN" THEN Append(list, idx) ELSE list

\* add<ArgType>(args...): the argument is constructed, a nameless one is
\* rejected before anything is stored, else it is entered under each of its
\* names and appended to the list of its visibility
add(d, gData) ==
    /\ pc = "setup"
    /\ Len(args) < MaxArgs
    /\ LET arg == Construct(d, gData)
           idx == Len(args) + 1
       IN  IF IsNameless(arg)
           THEN /\ err' = InvalidDeclarationError
                /\ UNCHANGED <<args, arguments, visibleArgs, hiddenArgs, decls>>
           ELSE /\ args' = Append(args, arg)
                /\ arguments' = AddKeys(arguments, arg, idx)
                /\ visibleArgs' = VisibleAfterAdd(visibleArgs, arg, idx)
                /\ hiddenArgs' = HiddenAfterAdd(hiddenArgs, arg, idx)
                /\ decls' = Append(decls, d)
                /\ err' = NoError
    /\ lastCall' = [op |-> "add", decl |-> d]
    /\ helpMessage' = NoHelp
    /\ UNCHANGED <<pc, argv, i, dispatched, conv>>

Add == \E d \in Decls : \E gData \in Indeterminate(d.T) : add(d, gData)

---------------------------------------------------------------------------
(* parseArg *)

\* arg[0] == '-' on a C string: false on the empty string, whose arg[0] is '\0'
StartsWithDash(arg) == arg # EmptyStr /\ arg[1] = "-"

\* shortName + (both names non-empty ? sep : "") + longName
JoinNames(a, sep) ==
    a.shortName \o (IF a.shortName # EmptyStr /\ a.longName # EmptyStr THEN sep ELSE EmptyStr)
                \o a.longName

\* ValueArg<T>::parseArg without its test for a missing value
ValueParseArg_NoDashTest(a, arg) ==
    LET c == stringToType(a.T, arg)
    IN  IF c.ok
        THEN [arg |-> [a EXCEPT !.data = c.val], err |-> NoError]
        ELSE [arg |-> a, err |-> InvalidValueError(JoinNames(a, <<"/">>), arg)]

\* ValueArg<T>::parseArg: [arg |-> the argument after the call, err |-> the
\* exception it threw, or NoError]
ValueParseArg(a, arg) ==
    IF StartsWithDash(arg)
    THEN [arg |-> a, err |-> MissingValueError(JoinNames(a, <<",">>))]
    ELSE LET c == stringToType(a.T, arg)
         IN  IF c.ok
             THEN [arg |-> [a EXCEPT !.data = c.val], err |-> NoError]
             ELSE [arg |-> a, err |-> InvalidValueError(JoinNames(a, <<"/">>), arg)]

\* ImplicitArg<T>::parseArg setting its flags before it converts the token
ImplicitParseArg_FlagsFirst(a, arg) ==
    IF StartsWithDash(arg)
    THEN [arg |-> [a EXCEPT !.data = a.setValue, !.isDefined_ = TRUE], err |-> NoError]
    ELSE LET c == stringToType(a.T, arg)
             flagged == [a EXCEPT !.isDefined_ = TRUE, !.isSet_ = TRUE]
         IN  IF c.ok
             THEN [arg |-> [flagged EXCEPT !.data = c.val], err |-> NoError]
             ELSE [arg |-> flagged,
                   err |-> InvalidValueError(a.shortName \o <<",", " ">> \o a.longName, arg)]

\* ImplicitArg<T>::parseArg without its test for a missing value: every
\* following token is converted
ImplicitParseArg_NoDashTest(a, arg) ==
    LET c == stringToType(a.T, arg)
    IN  IF c.ok
        THEN [arg |-> [a EXCEPT !.data = c.val, !.isDefined_ = TRUE, !.isSet_ = TRUE],
              err |-> NoError]
        ELSE [arg |-> a,
              err |-> InvalidValueError(a.shortName \o <<",", " ">> \o a.longName, arg)]

\* ImplicitArg<T>::parseArg setting isSet_ also when it takes setValue
ImplicitParseArg_SetValueIsSet(a, arg) ==
    IF StartsWithDash(arg)
    THEN [arg |-> [a EXCEPT !.data = a.setValue, !.isDefined_ = TRUE, !.isSet_ = TRUE],
          err |-> NoError]
    ELSE LET c == stringToType(a.T, arg)
         IN  IF c.ok
             THEN [arg |-> [a EXCEPT !.data = c.val, !.isDefined_ = TRUE, !.isSet_ = TRUE],
                   err |-> NoError]
             ELSE [arg |-> a,
                   err |-> InvalidValueError(a.shortName \o <<",", " ">> \o a.longName, arg)]

\* ImplicitArg<T>::parseArg
ImplicitParseArg(a, arg) ==
    IF StartsWithDash(arg)
    THEN [arg |-> [a EXCEPT !.data = a.setValue, !.isDefined_ = TRUE], err |-> NoError]
    ELSE LET c == stringToType(a.T, arg)
         IN  IF c.ok
             THEN [arg |-> [a EXCEPT !.data = c.val, !.isDefined_ = TRUE, !.isSet_ = TRUE],
                   err |-> NoError]
             ELSE [arg |-> a,
                   err |-> InvalidValueError(a.shortName \o <<",", " ">> \o a.longName, arg)]

\* FlagArg::parseArg reading the following token as the flag's value
FlagParseArg_ReadsNext(a, arg) ==
    LET c == stringToType("bool", arg)
    IN  [arg |-> [a EXCEPT !.data = (IF c.ok THEN c.val ELSE StartsWithDash(arg) \/ arg = EmptyStr),
                           !.isSet_ = TRUE],
         err |-> NoError]

\* FlagArg::parseArg
FlagParseArg(a, arg) ==
    [arg |-> [a EXCEPT !.data = TRUE, !.isSet_ = TRUE], err |-> NoError]

\* the virtual call argIt->second->parseArg(next)
parseArg(a, arg) ==
    CASE a.kind = "Value" -> ValueParseArg(a, arg)
      [] a.kind = "Implicit" -> ImplicitParseArg(a, arg)
      [] a.kind = "Flag" -> FlagParseArg(a, arg)

---------------------------------------------------------------------------
(* ArgParser::parseCmd *)

argc == Len(argv)

\* argv[k], k counted from 0 as in the code
ArgvAt(k) == argv[k + 1]

\* the loop condition i < argc, as the position parseCmd is at
LoopPc(k, n) == IF k < n THEN "parsing" ELSE "done"

\* the call parseCmd(argc, argv) up to the first test of the loop condition
ParseCmd ==
    /\ pc = "setup"
    /\ \E av \in Argvs :
         /\ argv' = av
         /\ i' = 1
         /\ pc' = LoopPc(1, Len(av))
    /\ err' = NoError
    /\ lastCall' = [op |-> "parseCmd"]
    /\ helpMessage' = NoHelp
    /\ UNCHANGED <<args, arguments, visibleArgs, hiddenArgs, dispatched, decls, conv>>

\* next, as the loop body computes it
NextToken(k) == IF k < argc - 1 THEN ArgvAt(k + 1) ELSE EmptyStr

\* one iteration of a loop that rejects a token it does not find in arguments
ParseStep_UnknownFails ==
    /\ pc = "parsing"
    /\ LET tok == ArgvAt(i)
       IN  IF tok = EmptyStr
           THEN /\ i' = i + 1
                /\ pc' = LoopPc(i + 1, argc)
                /\ UNCHANGED <<args, err, dispatched>>
           ELSE IF tok \notin DOMAIN arguments
           THEN /\ err' = InvalidValueError(EmptyStr, tok)
                /\ pc' = "failed"
                /\ UNCHANGED <<args, i, dispatched>>
           ELSE LET idx == arguments[tok]
                    r   == parseArg(args[idx], NextToken(i))
                IN  /\ dispatched' = Append(dispatched, <<i, idx>>)
                    /\ args' = [args EXCEPT ![idx] = r.arg]
                    /\ err' = r.err
                    /\ IF r.err = NoError
                       THEN /\ i' = i + 1
                            /\ pc' = LoopPc(i + 1, argc)
                       ELSE /\ pc' = "failed"
                            /\ UNCHANGED i
    /\ UNCHANGED <<arguments, visibleArgs, hiddenArgs, argv, decls, lastCall, helpMessage,
                   conv>>

\* one iteration of a loop that catches the exception of parseArg and goes on
\* with the following token
ParseStep_CatchesAndGoesOn ==
    /\ pc = "parsing"
    /\ LET tok == ArgvAt(i)
       IN  IF tok = EmptyStr \/ tok \notin DOMAIN arguments
           THEN UNCHANGED <<args, err, dispatched>>
           ELSE LET idx == arguments[tok]
                    r   == parseArg(args[idx], NextToken(i))
                IN  /\ dispatched' = Append(dispatched, <<i, idx>>)
                    /\ args' = [args EXCEPT ![idx] = r.arg]
                    /\ err' = r.err
    /\ i' = i + 1
    /\ pc' = LoopPc(i + 1, argc)
    /\ UNCHANGED <<arguments, visibleArgs, hiddenArgs, argv, decls, lastCall, helpMessage,
                   conv>>

\* one iteration of the loop of parseCmd: an empty token is skipped, a token
\* that is a key of arguments has its argument's parseArg called with next, an
\* exception leaves the loop and the call
ParseStep ==
    /\ pc = "parsing"
    /\ LET tok == ArgvAt(i)
       IN  IF tok = EmptyStr \/ tok \notin DOMAIN arguments
           THEN /\ i' = i + 1
                /\ pc' = LoopPc(i + 1, argc)
                /\ UNCHANGED <<args, err, dispatched>>
           ELSE LET idx == arguments[tok]
                    r   == parseArg(args[idx], NextToken(i))
                IN  /\ dispatched' = Append(dispatched, <<i, idx>>)
                    /\ args' = [args EXCEPT ![idx] = r.arg]
                    /\ err' = r.err
                    /\ IF r.err = NoError
                       THEN /\ i' = i + 1
                            /\ pc' = LoopPc(i + 1, argc)
                       ELSE /\ pc' = "failed"
                            /\ UNCHANGED i
    /\ UNCHANGED <<arguments, visibleArgs, hiddenArgs, argv, decls, lastCall, helpMessage,
                   conv>>

---------------------------------------------------------------------------
(* ArgParser::createHelpMessage *)

\* getDefaultAsString of the three kinds
getDefaultAsString(a) ==
    CASE a.kind = "Value" ->
           IF ~a.hasDefault_ THEN EmptyStr ELSE <<"=">> \o typeToString(a.T, a.data)
      [] a.kind = "Implicit" ->
           <<"=", "a", "r", "g", "(", "=">> \o typeToString(a.T, a.setValue) \o <<")">>
      [] a.kind = "Flag" -> EmptyStr

SetMax(S) == IF S = {} THEN 0 ELSE CHOOSE m \in S : \A x \in S : x <= m

Spaces(n) == [k \in 1..n |-> " "]

\* std::right << std::setw(w) << str
PadLeft(str, w) == IF Len(str) >= w THEN str ELSE Spaces(w - Len(str)) \o str

\* std::left << std::setw(w) << str
PadRight(str, w) == IF Len(str) >= w THEN str ELSE str \o Spaces(w - Len(str))

\* one row of the table with the long column set to the two maxima without
\* the space that joins the long name and the default value
HelpRow_NoJoiningSpace(a, longestShortName, longestLongName, longestDefaultValue) ==
    <<" ", " ">> \o PadLeft(a.shortName, longestShortName) \o <<",", " ">>
        \o PadRight(a.longName \o <<" ">> \o getDefaultAsString(a),
                    longestLongName + longestDefaultValue)
        \o <<" ", " ">> \o a.description

\* one row of the table, without its '\n'
HelpRow(a, longestShortName, longestLongName, longestDefaultValue) ==
    <<" ", " ">> \o PadLeft(a.shortName, longestShortName) \o <<",", " ">>
        \o PadRight(a.longName \o <<" ">> \o getDefaultAsString(a),
                    longestLongName + longestDefaultValue + 1)
        \o <<" ", " ">> \o a.description

AllowedHeader == <<"[[Allowed Arguments]]">>
HiddenHeader == <<"[[Hidden Arguments]]">>

\* the elements of a list
Elements(list) == {list[k] : k \in 1..Len(list)}

\* the three maxima the measuring loops compute over the arguments measured
ColumnWidths(measured) ==
    [longestShortName    |-> SetMax({Len(args[x].shortName) : x \in measured}),
     longestLongName     |-> SetMax({Len(args[x].longName) : x \in measured}),
     longestDefaultValue |-> SetMax({Len(getDefaultAsString(args[x])) : x \in measured})]

\* the rows printed for a list of arguments
HelpRows(list, w) ==
    [k \in 1..Len(list) |->
       HelpRow(args[list[k]], w.longestShortName, w.longestLongName, w.longestDefaultValue)]

\* createHelpMessage(showHidden): the lines of the message
createHelpMessage(showHidden) ==
    LET w == ColumnWidths(Elements(visibleArgs)
                            \cup (IF showHidden THEN Elements(hiddenArgs) ELSE {}))
    IN  <<AllowedHeader>> \o HelpRows(visibleArgs, w)
          \o (IF showHidden THEN <<HiddenHeader>> \o HelpRows(hiddenArgs, w) ELSE <<>>)

\* a call of createHelpMessage, before or after parseCmd
CreateHelpMessage ==
    /\ pc # "parsing"
    /\ \E showHidden \in BOOLEAN :
         /\ helpMessage' = [called |-> TRUE, showHidden |-> showHidden,
                            lines |-> createHelpMessage(showHidden)]
         /\ lastCall' = [op |-> "createHelpMessage", showHidden |-> showHidden]
    /\ UNCHANGED <<args, arguments, visibleArgs, hiddenArgs, pc, argv, i, err, dispatched,
                   decls, conv>>

---------------------------------------------------------------------------
(* The program *)

\* ArgParser parser; with nothing registered and nothing called
NewParser ==
    /\ args = <<>>
    /\ arguments = <<>>
    /\ visibleArgs = <<>>
    /\ hiddenArgs = <<>>
    /\ pc = "setup"
    /\ argv = <<ProgName>>
    /\ i = 1
    /\ err = NoError
    /\ dispatched = <<>>
    /\ decls = <<>>
    /\ lastCall = [op |-> "none"]
    /\ helpMessage = NoHelp

Init ==
    /\ NewParser
    /\ conv = NoConversion

Next == Add \/ ParseCmd \/ ParseStep \/ CreateHelpMessage

Spec == Init /\ [][Next]_vars

---------------------------------------------------------------------------
(* The conversion functions called on their own *)

ConvTypes == {"int", "float", "bool", "string"}

\* the characters of the tokens given to stringToType: digits, a sign, a
\* point, a letter and a space
ConvChars == {"0", "1", "-", ".", "x", " "}

\* the words stringToType<bool> knows, in two spellings
WordTokens ==
    { <<"t", "r", "u", "e">>, <<"T", "r", "u", "e">>,
      <<"f", "a", "l", "s", "e">>, <<"F", "A", "L", "S", "E">> }

\* the strings given to stringToType
ConvTokens == SeqsUpTo(ConvChars, MaxLen) \cup WordTokens

\* the floats given to typeToString: 3.14 and -3.14, 0, 0.5, 12, and values
\* with a seventh decimal: 0.1234567, 0.0000001, -0.0000012, 0.9999999
FloatValues ==
    { Float(FALSE, 3, 1400000), Float(TRUE, 3, 1400000), Float(FALSE, 0, 0),
      Float(FALSE, 0, 5000000), Float(FALSE, 12, 0), Float(FALSE, 0, 1234567),
      Float(FALSE, 0, 1), Float(TRUE, 0, 12), Float(FALSE, 0, 9999999) }

\* the values given to typeToString<T>
ConvValues(T) ==
    CASE T = "int" -> (0 - MaxMagnitude)..MaxMagnitude
      [] T = "float" -> FloatValues
      [] T = "bool" -> BOOLEAN
      [] T = "string" -> ConvTokens

\* a value or a token is at hand, of a type T
ConvInit ==
    /\ NewParser
    /\ \E T \in ConvTypes :
         \/ \E v \in ConvValues(T) : conv = [pc |-> "value", T |-> T, val |-> v]
         \/ \E str \in ConvTokens : conv = [pc |-> "token", T |-> T, str |-> str]

\* typeToString<T>(val)
CallTypeToString ==
    /\ conv.pc = "value"
    /\ conv' = [pc |-> "string", T |-> conv.T, val |-> conv.val,
                str |-> typeToString(conv.T, conv.val)]
    /\ UNCHANGED <<args, arguments, visibleArgs, hiddenArgs, pc, argv, i, err, dispatched,
                   decls, lastCall, helpMessage>>

\* stringToType<T>(str), of a token or of what typeToString<T> returned
CallStringToType ==
    /\ conv.pc \in {"token", "string"}
    /\ conv' = [pc |-> "converted", T |-> conv.T, str |-> conv.str,
                res |-> stringToType(conv.T, conv.str), given |-> conv]
    /\ UNCHANGED <<args, arguments, visibleArgs, hiddenArgs, pc, argv, i, err, dispatched,
                   decls, lastCall, helpMessage>>

ConvNext == CallTypeToString \/ CallStringToType

ConvSpec == ConvInit /\ [][ConvNext]_vars

---------------------------------------------------------------------------
(* Vocabulary of the properties *)

ArgIdx == 1..Len(args)

\* the positions of argv that parseCmd visits
Positions == 1..(argc - 1)

\* the non-empty names of an argument
NamesOf(a) == {a.shortName, a.longName} \ {EmptyStr}

\* the lookup of tok finds the argument idx
ResolvesTo(tok, idx) == tok \in DOMAIN arguments /\ arguments[tok] = idx

\* the loop of parseCmd is at a token that it dispatches to the argument idx
Dispatching(idx) == pc = "parsing" /\ ResolvesTo(ArgvAt(i), idx)

\* a token that can be a value: non-empty and not beginning with '-'
IsValueToken(tok) == Len(tok) > 0 /\ Head(tok) # "-"

\* a token that begins with '-'
IsOptionLike(tok) == Len(tok) > 0 /\ Head(tok) = "-"

\* the loop is at the final token of the input
AtFinalToken == i = argc - 1

\* parseCmd called parseArg of the argument idx for the token at position k
WasDispatched(k, idx) == \E n \in 1..Len(dispatched) : dispatched[n] = <<k, idx>>

\* some token of the input is a name of the argument a
NameAppears(a) == \E k \in Positions : ArgvAt(k) \in NamesOf(a)

\* std::string longNameDefaultValue{arg->longName + " " + arg->getDefaultAsString()}
LongColumn(a) == a.longName \o <<" ">> \o getDefaultAsString(a)

\* the rows of the message returned: <<line number, argument>> for each
\* argument the two printing loops go through
PrintedRows ==
    {<<1 + k, visibleArgs[k]>> : k \in 1..Len(visibleArgs)}
      \cup (IF helpMessage.showHidden
            THEN {<<2 + Len(visibleArgs) + k, hiddenArgs[k]>> : k \in 1..Len(hiddenArgs)}
            ELSE {})

\* the line ends with the characters of suffix
EndsWith(line, suffix) ==
    /\ Len(line) >= Len(suffix)
    /\ SubSeq(line, Len(line) - Len(suffix) + 1, Len(line)) = suffix

\* a row whose short column has width ws and whose long column has width wl
RowWithWidths(a, ws, wl) ==
    <<" ", " ">> \o PadLeft(a.shortName, ws) \o <<",", " ">>
        \o PadRight(LongColumn(a), wl) \o <<" ", " ">> \o a.description

---------------------------------------------------------------------------
(* C1 *)

\* C1: for every Value Argument, when parseCmd returns after it met a name of
\* the argument followed by a non-empty token that does not begin with '-' and
\* converts to T (the last such occurrence deciding), value() is the converted
\* token and isSet() is true.
C1_ValueSetFromToken ==
    pc = "done" =>
      \A idx \in ArgIdx : \A k \in Positions :
        ( /\ args[idx].kind = "Value"
          /\ ResolvesTo(ArgvAt(k), idx)
          /\ k < argc - 1
          /\ IsValueToken(ArgvAt(k + 1))
          /\ stringToType(args[idx].T, ArgvAt(k + 1)).ok
          /\ \A m \in Positions : m > k => ~ResolvesTo(ArgvAt(m), idx) )
        => /\ args[idx].data = stringToType(args[idx].T, ArgvAt(k + 1)).val
           /\ args[idx].isSet_

---------------------------------------------------------------------------
(* C2 *)

\* C2: for every Value Argument, of any T and with or without a default, when
\* parseCmd dispatches its name as the final token of the input, the call
\* fails with the 'requires a value but none was given' error and the
\* argument's value is not changed.
C2_ValueNameLastIsMissingValue ==
    [][ \A idx \in ArgIdx :
          (Dispatching(idx) /\ args[idx].kind = "Value" /\ AtFinalToken)
          => /\ pc' = "failed"
             /\ err'.kind = "MissingValue"
             /\ args'[idx].data = args[idx].data ]_vars

---------------------------------------------------------------------------
(* C3 *)

\* C3: for every Implicit Argument, of any T, when parseCmd dispatches its
\* name as the final token of the input, the call does not fail and leaves
\* value() equal to the setValue given at registration, isDefined() true and
\* isSet() false.
C3_ImplicitNameLastTakesSetValue ==
    [][ \A idx \in ArgIdx :
          (Dispatching(idx) /\ args[idx].kind = "Implicit" /\ AtFinalToken)
          => /\ pc' = "done"
             /\ args'[idx].data = decls[idx].sv
             /\ args'[idx].isDefined_
             /\ ~args'[idx].isSet_ ]_vars

---------------------------------------------------------------------------
(* C4 *)

\* C4: every Value Argument registered with a default, none of whose names is
\* among the input tokens 1..n-1, has value() equal to that default,
\* isDefined() true and isSet() false (before, during and after parse).
C4_DefaultKeptWhenNotNamed ==
    \A idx \in ArgIdx :
      (args[idx].kind = "Value" /\ decls[idx].hasDefault /\ ~NameAppears(args[idx]))
      => /\ args[idx].data = decls[idx].defaultValue
         /\ args[idx].isDefined_
         /\ ~args[idx].isSet_

\* parseCmd has returned after dispatching a token to another argument, and a
\* Value Argument with a default was not named
C4_Witness ==
    /\ pc = "done"
    /\ Len(dispatched) > 0
    /\ \E idx \in ArgIdx :
         /\ args[idx].kind = "Value" /\ decls[idx].hasDefault /\ ~NameAppears(args[idx])
         /\ args[idx].data = decls[idx].defaultValue

---------------------------------------------------------------------------
(* C5 *)

\* C5: when parseCmd dispatches a name of a Value Argument and the following
\* token begins with '-', the call fails there with the missing-value error,
\* no argument is changed, and once parseCmd has failed no token is dispatched
\* any more (the following token included, registered name or not).
C5_ValueBeforeOptionFails ==
    [][ /\ \A idx \in ArgIdx :
             ( /\ Dispatching(idx) /\ args[idx].kind = "Value"
               /\ ~AtFinalToken /\ IsOptionLike(ArgvAt(i + 1)) )
             => /\ pc' = "failed"
                /\ err'.kind = "MissingValue"
                /\ args' = args
                /\ dispatched' = Append(dispatched, <<i, idx>>)
        /\ pc = "failed" => (pc' = "failed" /\ dispatched' = dispatched /\ args' = args)
      ]_vars

\* parseCmd failed with the missing-value error at a Value Argument whose name
\* is followed by a registered name, which was not dispatched
C5_Witness ==
    /\ pc = "failed"
    /\ err.kind = "MissingValue"
    /\ i < argc - 1
    /\ ArgvAt(i + 1) \in DOMAIN arguments
    /\ \A idx \in ArgIdx : ~WasDispatched(i + 1, idx)
    /\ \E idx \in ArgIdx : args[idx].kind = "Value" /\ WasDispatched(i, idx)

---------------------------------------------------------------------------
(* C6 *)

\* C6: when parseCmd dispatches a name of an Implicit Argument and the
\* following token is non-empty and does not begin with '-': if the token
\* converts to T, value() becomes the converted token, isSet() and isDefined()
\* become true and the call goes on; if it does not convert, the call fails
\* with the invalid-value error and the argument (value(), isSet(),
\* isDefined()) is unchanged.
C6_ImplicitTakesToken ==
    [][ \A idx \in ArgIdx :
          ( /\ Dispatching(idx) /\ args[idx].kind = "Implicit"
            /\ ~AtFinalToken /\ IsValueToken(ArgvAt(i + 1)) )
          => LET c == stringToType(args[idx].T, ArgvAt(i + 1))
             IN  IF c.ok
                 THEN /\ args'[idx].data = c.val
                      /\ args'[idx].isSet_
                      /\ args'[idx].isDefined_
                      /\ pc' # "failed"
                 ELSE /\ pc' = "failed"
                      /\ err'.kind = "InvalidValue"
                      /\ args'[idx] = args[idx]
      ]_vars

\* parseCmd has returned after an Implicit Argument took the token that
\* followed its name
C6_Witness ==
    /\ pc = "done"
    /\ \E idx \in ArgIdx : \E k \in Positions :
         /\ args[idx].kind = "Implicit"
         /\ WasDispatched(k, idx)
         /\ k < argc - 1
         /\ IsValueToken(ArgvAt(k + 1))
         /\ args[idx].isSet_
         /\ args[idx].data = stringToType(args[idx].T, ArgvAt(k + 1)).val
         /\ args[idx].data # decls[idx].sv

---------------------------------------------------------------------------
(* C7 *)

---------------------------------------------------------------------------
(* C8 *)

\* C8: a Value Argument registered without a default has isDefined() false
\* before parse, and isDefined() true after a parse in which one of its names
\* was followed by a token that converts to T.
C8_DefinedAfterValueGiven ==
    \A idx \in ArgIdx :
      (args[idx].kind = "Value" /\ ~decls[idx].hasDefault) =>
        /\ pc = "setup" => ~args[idx].isDefined_
        /\ ( /\ pc = "done"
             /\ \E k \in Positions :
                  /\ ResolvesTo(ArgvAt(k), idx)
                  /\ k < argc - 1
                  /\ IsValueToken(ArgvAt(k + 1))
                  /\ stringToType(args[idx].T, ArgvAt(k + 1)).ok )
           => args[idx].isDefined_

---------------------------------------------------------------------------
(* C9 *)

\* both names given to the constructor are empty
BothNamesEmpty(d) == Len(d.shortName) = 0 /\ Len(d.longName) = 0

\* C9: a call of add whose constructor arguments have both names empty, of
\* whatever kind, fails with the at-least-one-name error and changes neither
\* the arguments made, nor the name map, nor the two visibility lists.
C9_NamelessAddRejected ==
    [][ (lastCall'.op = "add" /\ BothNamesEmpty(lastCall'.decl))
        => /\ err' = InvalidDeclarationError
           /\ UNCHANGED <<args, arguments, visibleArgs, hiddenArgs>> ]_vars

\* a nameless registration was just rejected by a registry that holds an argument
C9_Witness ==
    /\ lastCall.op = "add"
    /\ BothNamesEmpty(lastCall.decl)
    /\ err.kind = "InvalidDeclaration"
    /\ Len(args) > 0
    /\ DOMAIN arguments # {}

---------------------------------------------------------------------------
(* C10 *)

\* the arguments registered with visibility v, in registration order
RegisteredWith(v) ==
    SelectSeq([k \in 1..Len(args) |-> k], LAMBDA x : decls[x].visibility = v)

\* C10: the message createHelpMessage(showHidden) returns is the Allowed
\* header and one row for each argument registered VISIBLE and, only when
\* showHidden is true, the Hidden header and one row for each argument
\* registered HIDDEN; an argument registered INVISIBLE has no row, and each of
\* its occurrences in the input of a parse that returned was dispatched.
C10_HelpListsByVisibility ==
    /\ helpMessage.called =>
         LET vis == RegisteredWith("VISIBLE")
             hid == RegisteredWith("HIDDEN")
             w   == ColumnWidths(Elements(vis)
                                   \cup (IF helpMessage.showHidden THEN Elements(hid) ELSE {}))
         IN  /\ helpMessage.lines =
                  <<AllowedHeader>> \o HelpRows(vis, w)
                     \o (IF helpMessage.showHidden
                         THEN <<HiddenHeader>> \o HelpRows(hid, w) ELSE <<>>)
             /\ (\E n \in 1..Len(helpMessage.lines) : helpMessage.lines[n] = HiddenHeader)
                  <=> helpMessage.showHidden
             /\ Len(helpMessage.lines) =
                  1 + Len(vis) + (IF helpMessage.showHidden THEN 1 + Len(hid) ELSE 0)
    /\ \A idx \in ArgIdx :
         decls[idx].visibility = "INVISIBLE" =>
           /\ NamesOf(args[idx]) \subseteq DOMAIN arguments
           /\ pc = "done" => \A k \in Positions :
                               ResolvesTo(ArgvAt(k), idx) => WasDispatched(k, idx)

\* createHelpMessage(true) was called after a parse that dispatched an
\* INVISIBLE argument, with a HIDDEN argument registered too
C10_Witness ==
    /\ helpMessage.called
    /\ helpMessage.showHidden
    /\ pc = "done"
    /\ \E idx \in ArgIdx : \E k \in Positions :
         decls[idx].visibility = "INVISIBLE" /\ WasDispatched(k, idx)
    /\ \E idx \in ArgIdx : decls[idx].visibility = "HIDDEN"
    /\ Len(helpMessage.lines) = 3

---------------------------------------------------------------------------
(* C11 *)

\* C11 as stated: in every help listing, each row has its short name
\* right-aligned in a column as wide as the widest short name among the rows
\* printed, and its long column (longName, a space, the default string)
\* left-aligned in a column exactly as wide as the widest long column among
\* the rows printed.
C11_LongColumnWidestCombined ==
    helpMessage.called =>
      LET printed == {r[2] : r \in PrintedRows}
          ws == SetMax({Len(args[x].shortName) : x \in printed})
          wl == SetMax({Len(LongColumn(args[x])) : x \in printed})
      IN  \A r \in PrintedRows :
            helpMessage.lines[r[1]] = RowWithWidths(args[r[2]], ws, wl)

\* C11 as amended: the short column is as wide as the widest short name among
\* the rows printed; the long column is as wide as the widest long name plus
\* one plus the widest default string among the rows printed, which is never
\* less than the widest long column.
C11_LongColumnSumOfWidest ==
    helpMessage.called =>
      LET printed == {r[2] : r \in PrintedRows}
          ws == SetMax({Len(args[x].shortName) : x \in printed})
          wl == SetMax({Len(args[x].longName) : x \in printed}) + 1
                  + SetMax({Len(getDefaultAsString(args[x])) : x \in printed})
      IN  /\ \A r \in PrintedRows :
               helpMessage.lines[r[1]] = RowWithWidths(args[r[2]], ws, wl)
          /\ \A x \in printed : Len(LongColumn(args[x])) <= wl

\* a listing was returned in which the widest long name and the widest
\* default string are in different rows, so that the long column is wider
\* than every long-name-and-default string in it
C11_Witness ==
    /\ helpMessage.called
    /\ Len(helpMessage.lines) = 3
    /\ \E r1 \in PrintedRows : \E r2 \in PrintedRows :
         /\ Len(args[r1[2]].longName) > Len(args[r2[2]].longName)
         /\ Len(getDefaultAsString(args[r2[2]])) > Len(getDefaultAsString(args[r1[2]]))
         /\ \A r \in PrintedRows :
              Len(helpMessage.lines[r[1]]) > 2 + Len(args[r1[2]].shortName) + 2
                  + Len(LongColumn(args[r2[2]])) + 2 + Len(args[r[2]].description)

---------------------------------------------------------------------------
(* C12 *)

\* C12: in every message createHelpMessage returns, the k-th row below the
\* Allowed header is the row of the k-th argument registered VISIBLE, and the
\* k-th row below the Hidden header is the row of the k-th argument registered
\* HIDDEN, whatever the names of the arguments are (a row is told by the
\* description it ends with).
C12_HelpRowsInRegistrationOrder ==
    helpMessage.called =>
      LET vis == RegisteredWith("VISIBLE")
          hid == RegisteredWith("HIDDEN")
      IN  /\ Len(helpMessage.lines) >= 1 + Len(vis)
          /\ helpMessage.lines[1] = AllowedHeader
          /\ \A k \in 1..Len(vis) :
               EndsWith(helpMessage.lines[1 + k],
                        <<" ", " ">> \o decls[vis[k]].description)
          /\ helpMessage.showHidden =>
               /\ Len(helpMessage.lines) = 2 + Len(vis) + Len(hid)
               /\ helpMessage.lines[2 + Len(vis)] = HiddenHeader
               /\ \A k \in 1..Len(hid) :
                    EndsWith(helpMessage.lines[2 + Len(vis) + k],
                             <<" ", " ">> \o decls[hid[k]].description)

\* a listing was returned for two VISIBLE arguments registered against the
\* lexical order of their names: -b first, -a second, and printed in that order
C12_Witness ==
    /\ helpMessage.called
    /\ Len(visibleArgs) = 2
    /\ decls[1].shortName = <<"b">>
    /\ decls[2].shortName = <<"a">>
    /\ decls[1].visibility = "VISIBLE" /\ decls[2].visibility = "VISIBLE"
    /\ EndsWith(helpMessage.lines[2], decls[1].description)
    /\ EndsWith(helpMessage.lines[3], decls[2].description)
    /\ decls[1].description # decls[2].description

---------------------------------------------------------------------------
(* C13 *)

\* C13: an iteration of the loop of parseCmd at a token that is not a key of
\* the name map raises no error, calls no parseArg and changes no argument
\* (value, isSet, isDefined); the loop goes on with the following token.
C13_UnknownTokenIgnored ==
    [][ (pc = "parsing" /\ ArgvAt(i) \notin DOMAIN arguments)
        => /\ pc' # "failed"
           /\ err' = NoError
           /\ args' = args
           /\ dispatched' = dispatched
           /\ i' = i + 1 ]_vars

\* parseCmd has returned without error from an input with a non-empty token
\* that is no key and follows no dispatched name, and with a token that was
\* dispatched after it
C13_Witness ==
    /\ pc = "done"
    /\ err = NoError
    /\ \E k \in Positions :
         /\ ArgvAt(k) # EmptyStr
         /\ ArgvAt(k) \notin DOMAIN arguments
         /\ k > 1 => ArgvAt(k - 1) \notin DOMAIN arguments
         /\ \A idx \in ArgIdx : ~WasDispatched(k, idx)
         /\ \E idx \in ArgIdx : WasDispatched(k + 1, idx)

---------------------------------------------------------------------------
(* C14 *)

\* C14: when the parseArg that parseCmd calls at token i fails, parseCmd fails
\* in that iteration with that error; every argument keeps what the tokens
\* before i gave it (value, isSet, isDefined); and once parseCmd has failed,
\* no token after i is dispatched and no argument changes any more.
C14_FailFastNoRollback ==
    [][ /\ \A idx \in ArgIdx :
             (Dispatching(idx) /\ parseArg(args[idx], NextToken(i)).err # NoError)
             => /\ pc' = "failed"
                /\ err' = parseArg(args[idx], NextToken(i)).err
                /\ i' = i
                /\ args' = args
        /\ pc' = "failed" =>
             /\ err' # NoError
             /\ \A n \in 1..Len(dispatched') : dispatched'[n][1] <= i'
             /\ \E idx \in ArgIdx : dispatched'[Len(dispatched')] = <<i', idx>>
        /\ pc = "failed" => UNCHANGED <<pc, err, i, args, dispatched>>
      ]_vars

\* parseCmd failed at its second token after its first token had set a flag,
\* and the flag is still set
C14_Witness ==
    /\ pc = "failed"
    /\ i = 2
    /\ Len(dispatched) = 2
    /\ \E f \in ArgIdx : \E v \in ArgIdx :
         /\ f # v
         /\ args[f].kind = "Flag" /\ WasDispatched(1, f)
         /\ args[f].data /\ args[f].isSet_
         /\ WasDispatched(2, v)

---------------------------------------------------------------------------
(* C15 *)

\* C15: the error parseCmd fails with, a missing value or an invalid value,
\* names the argument whose parseArg raised it: by its short name, a
\* separator and its long name when it has both names, and by its one name
\* alone, with no separator, when it has only one.
C15_ErrorNamesArgument ==
    err.kind \in {"MissingValue", "InvalidValue"} =>
      LET a == args[dispatched[Len(dispatched)][2]]
      IN  IF a.shortName # EmptyStr /\ a.longName # EmptyStr
          THEN /\ Len(err.names) > Len(a.shortName) + Len(a.longName)
               /\ SubSeq(err.names, 1, Len(a.shortName)) = a.shortName
               /\ EndsWith(err.names, a.longName)
          ELSE err.names = a.shortName \o a.longName

---------------------------------------------------------------------------
(* C16 *)

\* C16: stringToType<T> of a numeric T (int, float) succeeds exactly when the
\* whole token is a T: an optional sign and digits for int, an optional sign
\* and digits with at most one point for float, and nothing else; every other
\* token, "1x" for one, fails with the conversion error.
C16_FailsUnlessWholeTokenConverts ==
    (conv.pc = "converted" /\ conv.T \in {"int", "float"}) =>
      LET str == conv.str
          u   == IF str # <<>> /\ Head(str) \in {"-", "+"} THEN Tail(str) ELSE str
          Digits(x) == \A k \in 1..Len(x) : IsDigit(x[k])
          wholeInt   == u # <<>> /\ Digits(u)
          wholeFloat ==
              \E p \in 0..Len(u) :
                /\ Digits(SubSeq(u, 1, p))
                /\ p = Len(u) \/ (u[p + 1] = "." /\ Digits(SubSeq(u, p + 2, Len(u))))
                /\ Len(u) > (IF p < Len(u) THEN 1 ELSE 0)
      IN  conv.res.ok <=> (IF conv.T = "int" THEN wholeInt ELSE wholeFloat)

---------------------------------------------------------------------------
(* C17 *)

\* C17 as stated: for every value v of a type T among bool, int, float and
\* string, stringToType<T>(typeToString<T>(v)) succeeds and returns v.
C17_RoundTrip ==
    (conv.pc = "converted" /\ conv.given.pc = "string") =>
      /\ conv.res.ok
      /\ conv.res.val = conv.given.val

\* C17 as amended: stringToType<T>(typeToString<T>(v)) succeeds; it returns v
\* for every bool, every int (negative ones included), every string, and
\* every float that has no more than FracDigits decimals; for a float with
\* more decimals it returns another value.
C17_RoundTripUpToSixDecimals ==
    (conv.pc = "converted" /\ conv.given.pc = "string") =>
      /\ conv.res.ok
      /\ IF conv.T = "float" /\ conv.given.val.frac % 10 # 0
         THEN conv.res.val # conv.given.val
         ELSE conv.res.val = conv.given.val

\* a negative int has gone through typeToString and stringToType and has come
\* back as it was
C17_Witness ==
    /\ conv.pc = "converted"
    /\ conv.given.pc = "string"
    /\ conv.T = "int"
    /\ conv.given.val < 0
    /\ Head(conv.str) = "-"
    /\ conv.res.ok
    /\ conv.res.val = conv.given.val

---------------------------------------------------------------------------
(* C18 *)

\* C18: for every Value or Implicit argument whose hasDefault() is true,
\* defaultValue() returns the default value given at registration, and nothing
\* else, before, during and after parseCmd.
C18_DefaultValueIsRegisteredDefault ==
    \A idx \in ArgIdx :
      (args[idx].kind \in {"Value", "Implicit"} /\ hasDefault(args[idx]))
      => defaultValue(args[idx]) = {decls[idx].defaultValue}

---------------------------------------------------------------------------
(* C19 *)

\* C19: when an earlier and a later registration share a name, the name map
\* holds, for that name, the last argument registered with it and not the
\* earlier one; an iteration of parseCmd at that name calls parseArg of that
\* last argument only and leaves the earlier argument as it was; both
\* arguments are in the list of their visibility, and each has its row in
\* every help listing that prints the list.
C19_LaterRegistrationTakesName ==
    [][ \A e \in ArgIdx : \A l \in ArgIdx :
          \A name \in NamesOf(args[e]) \cap NamesOf(args[l]) :
            e < l =>
              /\ arguments[name] # e
              /\ arguments[name] >= l
              /\ name \in NamesOf(args[arguments[name]])
              /\ (pc = "parsing" /\ ArgvAt(i) = name) =>
                   /\ args'[e] = args[e]
                   /\ dispatched' = Append(dispatched, <<i, arguments[name]>>)
              /\ \A x \in {e, l} :
                   /\ decls[x].visibility = "VISIBLE" =>
                        Cardinality({k \in 1..Len(visibleArgs) : visibleArgs[k] = x}) = 1
                   /\ decls[x].visibility = "HIDDEN" =>
                        Cardinality({k \in 1..Len(hiddenArgs) : hiddenArgs[k] = x}) = 1
                   /\ ( /\ helpMessage'.called
                        /\ \/ decls[x].visibility = "VISIBLE"
                           \/ decls[x].visibility = "HIDDEN" /\ helpMessage'.showHidden )
                      => \E r \in PrintedRows' :
                           /\ r[2] = x
                           /\ EndsWith(helpMessage'.lines[r[1]], decls[x].description)
      ]_vars

\* one declaration was registered twice, parseCmd has returned after it gave
\* the value that followed the shared name to the second argument, the first
\* still holds its default, and a listing with a row for each was returned
C19_Witness ==
    /\ helpMessage.called
    /\ pc = "done"
    /\ Len(args) = 2
    /\ decls[1] = decls[2]
    /\ decls[1].hasDefault
    /\ \E k \in Positions :
         /\ ArgvAt(k) \in NamesOf(args[1])
         /\ WasDispatched(k, 2)
         /\ ~WasDispatched(k, 1)
    /\ args[1].data = decls[1].defaultValue
    /\ args[2].data # decls[2].defaultValue
    /\ Len(helpMessage.lines) = 3

---------------------------------------------------------------------------
(* C20 *)

\* C20: every key of the name map begins with '-'; when an iteration of
\* parseCmd has parseArg of a Value or Implicit argument assign the conversion
\* of the following token to the argument's value, that token is no key of
\* the map; and an iteration at a token that was so consumed by the iteration
\* before calls no parseArg.
C20_ConsumedValueNotDispatched ==
    [][ /\ \A key \in DOMAIN arguments : StartsWithDash(key)
        /\ \A idx \in ArgIdx :
             ( /\ Dispatching(idx)
               /\ args[idx].kind \in {"Value", "Implicit"}
               /\ ~AtFinalToken
               /\ pc' # "failed"
               /\ stringToType(args[idx].T, ArgvAt(i + 1)).ok
               /\ args'[idx].data = stringToType(args[idx].T, ArgvAt(i + 1)).val )
             => ArgvAt(i + 1) \notin DOMAIN arguments
        /\ \A idx \in ArgIdx :
             ( /\ pc = "parsing"
               /\ WasDispatched(i - 1, idx)
               /\ args[idx].kind \in {"Value", "Implicit"}
               /\ stringToType(args[idx].T, ArgvAt(i)).ok
               /\ args[idx].data = stringToType(args[idx].T, ArgvAt(i)).val )
             => dispatched' = dispatched /\ args' = args
      ]_vars

\* parseCmd has returned after a Value or Implicit argument took the
\* non-empty token that followed its name, and the iteration at that token
\* called no parseArg
C20_Witness ==
    /\ pc = "done"
    /\ \E idx \in ArgIdx : \E k \in Positions :
         /\ args[idx].kind \in {"Value", "Implicit"}
         /\ WasDispatched(k, idx)
         /\ k < argc - 1
         /\ ArgvAt(k + 1) # EmptyStr
         /\ stringToType(args[idx].T, ArgvAt(k + 1)).ok
         /\ args[idx].data = stringToType(args[idx].T, ArgvAt(k + 1)).val
         /\ \A other \in ArgIdx : ~WasDispatched(k + 1, other)
         /\ Len(dispatched) = 1

---------------------------------------------------------------------------
(* C21 *)

\* C21 as stated: when parseCmd dispatches a name of an Implicit Argument and
\* the following token begins with '-', the call does not fail, the argument
\* has value() equal to its setValue, isDefined() true and isSet() false, no
\* other argument changes, and the loop goes on at the following token.
C21_ImplicitBeforeOptionNotSet ==
    [][ \A idx \in ArgIdx :
          ( /\ Dispatching(idx) /\ args[idx].kind = "Implicit"
            /\ ~AtFinalToken /\ IsOptionLike(ArgvAt(i + 1)) )
          => /\ pc' = "parsing"
             /\ i' = i + 1
             /\ args'[idx].data = decls[idx].sv
             /\ args'[idx].isDefined_
             /\ ~args'[idx].isSet_
             /\ \A other \in ArgIdx \ {idx} : args'[other] = args[other]
      ]_vars

\* C21 as amended: when parseCmd dispatches a name of an Implicit Argument and
\* the following token begins with '-', the call does not fail, the argument
\* has value() equal to its setValue and isDefined() true, its isSet() is what
\* it was (false unless an earlier occurrence of the name took a value), no
\* other argument changes, and the loop goes on at the following token, which
\* the next iteration looks up as it does any token.
C21_ImplicitBeforeOptionKeepsIsSet ==
    [][ /\ \A idx \in ArgIdx :
             ( /\ Dispatching(idx) /\ args[idx].kind = "Implicit"
               /\ ~AtFinalToken /\ IsOptionLike(ArgvAt(i + 1)) )
             => /\ pc' = "parsing"
                /\ i' = i + 1
                /\ args'[idx].data = decls[idx].sv
                /\ args'[idx].isDefined_
                /\ args'[idx].isSet_ = args[idx].isSet_
                /\ \A other \in ArgIdx \ {idx} : args'[other] = args[other]
        /\ \A idx \in ArgIdx :
             ( /\ pc = "parsing"
               /\ WasDispatched(i - 1, idx) /\ args[idx].kind = "Implicit"
               /\ IsOptionLike(ArgvAt(i)) )
             => IF ArgvAt(i) \in DOMAIN arguments
                THEN /\ dispatched' = Append(dispatched, <<i, arguments[ArgvAt(i)]>>)
                     /\ args'[arguments[ArgvAt(i)]] =
                          parseArg(args[arguments[ArgvAt(i)]], NextToken(i)).arg
                ELSE dispatched' = dispatched /\ args' = args
      ]_vars

\* parseCmd has returned after an Implicit Argument, whose name was followed
\* by the name of a flag, took its setValue and stayed not set, and the flag
\* was dispatched at its own token
C21_Witness ==
    /\ pc = "done"
    /\ \E idx \in ArgIdx : \E f \in ArgIdx :
         /\ args[idx].kind = "Implicit"
         /\ args[f].kind = "Flag"
         /\ dispatched = <<<<1, idx>>, <<2, f>>>>
         /\ args[idx].data = decls[idx].sv
         /\ args[idx].isDefined_
         /\ ~args[idx].isSet_
         /\ args[f].data

---------------------------------------------------------------------------
(* C22 *)

\* C22: in every help listing, before or after parseCmd, the row of a Value
\* Argument registered with a default has, in its long column, the long name,
\* a space, "=" and the default value given at registration, and a space
\* after it.
C22_HelpShowsRegisteredDefault ==
    helpMessage.called =>
      LET ws == SetMax({Len(args[r[2]].shortName) : r \in PrintedRows})
      IN  \A r \in PrintedRows :
            (args[r[2]].kind = "Value" /\ decls[r[2]].hasDefault) =>
              LET a        == args[r[2]]
                  line     == helpMessage.lines[r[1]]
                  expected == a.longName \o <<" ", "=">>
                                \o typeToString(a.T, decls[r[2]].defaultValue)
                  from     == 2 + ws + 2
              IN  /\ Len(line) > from + Len(expected)
                  /\ SubSeq(line, from + 1, from + Len(expected)) = expected
                  /\ line[from + Len(expected) + 1] = " "

---------------------------------------------------------------------------
(* C23 *)

\* C23: in every state, during registration, during parseCmd and after it
\* returned or failed, every registered argument whose isSet() is true has
\* isDefined() true.
C23_SetImpliesDefined ==
    \A idx \in ArgIdx : args[idx].isSet_ => args[idx].isDefined_

\* parseCmd has returned or failed after it had set a flag and an Implicit
\* Argument registered without a default, which became defined by the token
\* it took
C23_Witness ==
    /\ pc \in {"done", "failed"}
    /\ \E idx \in ArgIdx :
         /\ args[idx].kind = "Implicit"
         /\ ~decls[idx].hasDefault
         /\ args[idx].isSet_ /\ args[idx].isDefined_
    /\ \E idx \in ArgIdx :
         /\ args[idx].kind = "Flag"
         /\ args[idx].isSet_ /\ args[idx].isDefined_

=============================================================================
